---- MODULE Spec2Model ----
(***************************************************************************)
(* H265Publisher (h265_image_transport/src/h265_publisher.cpp).            *)
(*                                                                         *)
(* publish() is modelled per caller thread, one action per block of the    *)
(* method: lock, lazy configuration, conversion, the two submit sites, the *)
(* receive of a packet, every field copy of the envelope, publish_fn, and  *)
(* the return.  The encoder (libavcodec) is the environment: it answers    *)
(* submit and receive calls and hands out packets.                         *)
(***************************************************************************)
EXTENDS Integers, Sequences, FiniteSets, TLC

(***************************************************************************)
(* Bounds of the model.                                                    *)
(***************************************************************************)
NumThreads == 2      \* concurrent callers of publish
MaxCalls == 2        \* publish calls started in one behaviour
MaxPackets == 2      \* packets the encoder hands out in one behaviour
MaxSideData == 5     \* side_data_elems of a packet
MaxBuf == 1          \* buf->size of a packet

Threads == 1 .. NumThreads

(***************************************************************************)
(* Incoming images: width and height of sensor_msgs::msg::Image.  Odd and  *)
(* zero dimensions are included.                                           *)
(***************************************************************************)
Messages ==
  { [width |-> 2, height |-> 2], [width |-> 2, height |-> 4],
    [width |-> 3, height |-> 2], [width |-> 2, height |-> 0] }

\* no call in progress: the parameter slot of an idle caller
NoMessage == [width |-> 0, height |-> 0]

(***************************************************************************)
(* libavcodec result codes.                                                *)
(***************************************************************************)
AVERROR_EAGAIN == -11
AVERROR_EINVAL == -22
AVERROR_ENOMEM == -12
AVERROR_EOF == -541478725

\* what avcodec_send_frame can answer (lines 249-268)
SendResults == {0, AVERROR_EAGAIN, AVERROR_EOF, AVERROR_EINVAL, AVERROR_ENOMEM}

\* AV_NOPTS_VALUE is INT64_MIN; the model's timestamps are small, and the
\* sentinel is the least value the model's integers can carry.
AV_NOPTS_VALUE == -2147483647

(***************************************************************************)
(* Memory: native little-endian integers and memcpy.                       *)
(***************************************************************************)
\* the w bytes of the two's complement integer x, least significant first
RECURSIVE LE(_, _)
LE(x, w) == IF w = 0 THEN <<>> ELSE <<x % 256>> \o LE(x \div 256, w - 1)

\* dst after memcpy(&dst[idx], src, Len(src)); bytes that fall past the end
\* of dst land outside the vector and are not part of it
Memcpy(dst, idx, src) ==
  [k \in 1 .. Len(dst) |->
     IF k > idx /\ k <= idx + Len(src) THEN src[k - idx] ELSE dst[k]]

\* the copy writes at or past the end of dst
PastEnd(dst, idx, src) == Len(src) > 0 /\ idx + Len(src) > Len(dst)

Zeros(n) == [k \in 1 .. n |-> 0]

(***************************************************************************)
(* Packets handed out by avcodec_receive_packet.  A packet is the fields   *)
(* of AVPacket plus the heap addresses its pointers hold: data is the      *)
(* address of the payload (the start of buf->data), side_data[i].data the  *)
(* address of the i-th side-data blob.                                     *)
(***************************************************************************)
Addrs == {4112, 4144}          \* 16-byte aligned heap addresses
SideSizes == <<4, 16, 0>>      \* sizes of side-data blobs, cyclically

SideSize(i) == SideSizes[((i - 1) % Len(SideSizes)) + 1]

SideEntry(i, base) ==
  [data  |-> base + 256 * i,
   bytes |-> [k \in 1 .. SideSize(i) |-> (16 * i + k) % 256],
   size  |-> SideSize(i),
   type  |-> i]

BufBytes(b) == [k \in 1 .. b |-> 160 + k]

NewPacket(pts, b, p, a, n) ==
  [buf             |-> [size |-> b, data |-> BufBytes(b)],
   pts             |-> pts,
   dts             |-> pts,
   data            |-> a,
   size            |-> p,
   stream_index    |-> 0,
   flags           |-> IF pts = 0 THEN 1 ELSE 0,     \* key frame flag
   side_data       |-> [i \in 1 .. n |-> SideEntry(i, a)],
   side_data_elems |-> n,
   duration        |-> 1,
   pos             |-> -1]

\* every packet shape of the model
EncoderPackets(pts) ==
  UNION { { NewPacket(pts, b, p, a, n) :
            p \in 0 .. b, a \in Addrs, n \in 0 .. MaxSideData } :
          b \in 0 .. MaxBuf }

\* the packet shape drawn while callers interleave: a full buffer and one
\* side-data entry
PipelinePackets(pts) ==
  { NewPacket(pts, MaxBuf, MaxBuf, a, n) :
    a \in {CHOOSE x \in Addrs : \A y \in Addrs : x <= y},
    n \in {1} }

\* the payload the packet's data pointer refers to: the first size bytes of
\* the encoder-owned buffer
PayloadBytes(pkt) == SubSeq(pkt.buf.data, 1, pkt.size)

\* av_packet_alloc(): a zeroed packet with no buffer (lines 236-239)
NullPacket ==
  [buf |-> [size |-> 0, data |-> <<>>], pts |-> AV_NOPTS_VALUE,
   dts |-> AV_NOPTS_VALUE, data |-> 0, size |-> 0, stream_index |-> 0,
   flags |-> 0, side_data |-> <<>>, side_data_elems |-> 0, duration |-> 0,
   pos |-> -1]

\* The memory of the AVPacket struct from its data member on: the pointer,
\* then size, stream_index, flags and the padding before the next pointer
\* (av_packet_alloc zeroes the struct).
PacketImageFromData(pkt) ==
  LE(pkt.data, 8) \o LE(pkt.size, 4) \o LE(pkt.stream_index, 4)
    \o LE(pkt.flags, 4) \o Zeros(4)

\* The memory of an AVPacketSideData element from its data member on: the
\* pointer, then size (size_t) and type.
SideImageFromData(e) == LE(e.data, 8) \o LE(e.size, 8) \o LE(e.type, 4) \o Zeros(4)

(***************************************************************************)
(* State.                                                                  *)
(***************************************************************************)
VARIABLES
  ctxOk,                  \* the constructor found codec_ and allocated context_
  context_,               \* the AVCodecContext fields publish sets and reads
  codecOpen,              \* avcodec_open2 has succeeded
  avInFrame_,             \* input working frame
  avOutFrame_,            \* output working frame (the frame submitted)
  swsCtx_,                \* scaling context
  inputLineSizes_,        \* line size of plane 0 of the source image
  frameCount_,            \* frame index, the next pts
  frameIdx,               \* frameIdx member, updated on an accepted submit
  mutex,                  \* 0 when free, else the thread that holds it
  pc,                     \* position of each caller in publish
  message,                \* the image each caller passed
  ret,                    \* local ret of each call
  avPacket,               \* local packet of each call
  compressed,             \* compressed.data of each call
  index_data_compressed,  \* write cursor of each call
  i,                      \* index of the side-data loop of each call
  encAccepted,            \* encoder: pts of every frame it accepted, in order
  encEmitted,             \* encoder: number of packets handed out so far
  recvSeq,                \* emission number of the packet each call holds
  published,              \* what publish_fn was called with, in call order
  configRuns,             \* number of entries into the configuration block
  calls,                  \* number of publish calls started
  crashed                 \* the process was killed by a memory fault

sessionVars == <<context_, codecOpen, avInFrame_, avOutFrame_, swsCtx_,
                 inputLineSizes_, configRuns>>
encVars == <<encAccepted, encEmitted>>
copyVars == <<compressed, index_data_compressed, i>>
localVars == <<ret, avPacket, recvSeq, compressed, index_data_compressed, i>>

vars == <<ctxOk, context_, codecOpen, avInFrame_, avOutFrame_, swsCtx_,
          inputLineSizes_, frameCount_, frameIdx, mutex, pc, message, ret,
          avPacket, compressed, index_data_compressed, i, encAccepted,
          encEmitted, recvSeq, published, configRuns, calls, crashed>>

\* avcodec_alloc_context3: the defaults of a fresh video encoder context
DefaultContext ==
  [height |-> 0, width |-> 0, pix_fmt |-> "NONE", codec_type |-> "VIDEO",
   time_base |-> [num |-> 0, den |-> 1], framerate |-> [num |-> 0, den |-> 1],
   gop_size |-> 12, thread_count |-> 1, max_b_frames |-> 0,
   sw_pix_fmt |-> "NONE", refs |-> 1, preset |-> "", crf |-> ""]

NullFrame ==
  [null |-> TRUE, buffer |-> FALSE, width |-> 0, height |-> 0,
   format |-> "NONE", pts |-> AV_NOPTS_VALUE]

NullSws ==
  [null |-> TRUE, srcW |-> 0, srcH |-> 0, srcFormat |-> "NONE",
   dstW |-> 0, dstH |-> 0, dstFormat |-> "NONE"]

\* The state after H265Publisher::H265Publisher(): either the codec was
\* found and the context allocated, or the constructor returned early.
Init ==
  /\ ctxOk \in BOOLEAN
  /\ context_ = DefaultContext
  /\ codecOpen = FALSE
  /\ avInFrame_ = NullFrame
  /\ avOutFrame_ = NullFrame
  /\ swsCtx_ = NullSws
  /\ inputLineSizes_ = 0
  /\ frameCount_ = 0
  /\ frameIdx = 0
  /\ mutex = 0
  /\ pc = [t \in Threads |-> "idle"]
  /\ message = [t \in Threads |-> NoMessage]
  /\ ret = [t \in Threads |-> 0]
  /\ avPacket = [t \in Threads |-> NullPacket]
  /\ compressed = [t \in Threads |-> <<>>]
  /\ index_data_compressed = [t \in Threads |-> 0]
  /\ i = [t \in Threads |-> 0]
  /\ encAccepted = <<>>
  /\ encEmitted = 0
  /\ recvSeq = [t \in Threads |-> 0]
  /\ published = <<>>
  /\ configRuns = 0
  /\ calls = 0
  /\ crashed = FALSE

(***************************************************************************)
(* publish: entry, lock and lazy configuration (lines 106-210).            *)
(***************************************************************************)
\* a caller invokes publish(message, publish_fn).  The message is a const
\* reference that publish first reads under the lock; its value is bound
\* there.
Call(t) ==
  /\ ~crashed
  /\ pc[t] = "idle"
  /\ calls < MaxCalls
  /\ calls' = calls + 1
  /\ pc' = [pc EXCEPT ![t] = "lock"]
  /\ UNCHANGED <<ctxOk, sessionVars, frameCount_, frameIdx, mutex, message,
                 localVars, encVars, published, crashed>>

\* std::unique_lock<std::mutex> guard(this->mutex): blocks until free
\* the guard taken without waiting for the mutex to be free
LockNoWait(t) ==
  /\ ~crashed
  /\ pc[t] = "lock"
  /\ mutex' = t
  /\ \E m \in Messages : message' = [message EXCEPT ![t] = m]
  /\ pc' = [pc EXCEPT ![t] = "guard"]
  /\ UNCHANGED <<ctxOk, sessionVars, frameCount_, frameIdx, localVars,
                 encVars, published, calls, crashed>>

Lock(t) ==
  /\ ~crashed
  /\ pc[t] = "lock"
  /\ mutex = 0
  /\ mutex' = t
  /\ \E m \in Messages : message' = [message EXCEPT ![t] = m]
  /\ pc' = [pc EXCEPT ![t] = "guard"]
  /\ UNCHANGED <<ctxOk, sessionVars, frameCount_, frameIdx, localVars,
                 encVars, published, calls, crashed>>

\* a manual unlock forgotten on a return path: the mutex stays held
GuardLeak(t) == mutex' = mutex

\* ~unique_lock at every return of publish: the mutex is released
GuardDestructor(t) == mutex' = 0

\* this->context_->height read through the pointer the constructor left
\* unset: a memory fault
NullContext(t) ==
  /\ ~crashed
  /\ pc[t] = "guard"
  /\ ~ctxOk
  /\ crashed' = TRUE
  /\ UNCHANGED <<ctxOk, sessionVars, frameCount_, frameIdx, mutex, pc, message,
                 localVars, encVars, published, calls>>

fps == 30

\* lines 115-151: the fields set from the first message
ConfiguredContext(m) ==
  [DefaultContext EXCEPT
     !.height = m.height, !.width = m.width, !.pix_fmt = "YUV420P",
     !.codec_type = "VIDEO",
     !.time_base = [num |-> 1, den |-> fps],
     !.framerate = [num |-> fps, den |-> 1],
     !.gop_size = fps * 2, !.thread_count = 5, !.max_b_frames = 3,
     !.sw_pix_fmt = "YUV420P", !.refs = 3,
     !.preset = "ultrafast", !.crf = "35"]

\* av_pix_fmt_desc_get / av_get_bits_per_pixel for the formats used
AvPixFmtDescGet(fmt) ==
  IF fmt = "RGB24" THEN [null |-> FALSE, bits |-> 24]
  ELSE IF fmt = "YUV420P" THEN [null |-> FALSE, bits |-> 12]
  ELSE [null |-> TRUE, bits |-> 0]

\* avcodec_open2 for the H.265 encoder: dimensions must be positive and,
\* for 4:2:0 input, even; a valid configuration may still fail to open
AvcodecOpen2(ctx) ==
  IF ctx.width > 0 /\ ctx.height > 0 /\ ctx.width % 2 = 0 /\ ctx.height % 2 = 0
  THEN {0, AVERROR_ENOMEM}
  ELSE {AVERROR_EINVAL}

\* av_frame_get_buffer: 0, or a negative AVERROR
AvFrameGetBuffer == {0, AVERROR_ENOMEM}

\* lines 115-210: the body of the configuration block.  The three failure
\* returns release the guard and leave publish.
ConfigureBlock(t) ==
  /\ ~crashed
  /\ pc[t] = "guard"
  /\ ctxOk
  /\ configRuns' = configRuns + 1
  /\ context_' = ConfiguredContext(message[t])
  /\ \E openRet \in AvcodecOpen2(ConfiguredContext(message[t])),
        inRet \in AvFrameGetBuffer, outRet \in AvFrameGetBuffer :
       LET ctx == ConfiguredContext(message[t])
           desc == AvPixFmtDescGet("RGB24")
           bytesPerPixel == desc.bits \div 8
       IN IF \/ desc.null
             \/ ~(bytesPerPixel = 3 /\ ~(desc.bits % 8 # 0))
             \/ openRet < 0
          THEN /\ GuardDestructor(t)
               /\ pc' = [pc EXCEPT ![t] = "idle"]
               /\ message' = [message EXCEPT ![t] = NoMessage]
               /\ UNCHANGED <<codecOpen, avInFrame_, avOutFrame_, swsCtx_,
                              inputLineSizes_>>
          ELSE /\ codecOpen' = TRUE
               /\ avInFrame_' =
                    [null |-> FALSE, buffer |-> (inRet = 0),
                     width |-> message[t].width, height |-> message[t].height,
                     format |-> "RGB24", pts |-> AV_NOPTS_VALUE]
               /\ inputLineSizes_' = 3 * message[t].width
               /\ swsCtx_' =
                    [null |-> FALSE,
                     srcW |-> message[t].width, srcH |-> message[t].height,
                     srcFormat |-> "RGB24",
                     dstW |-> ctx.width, dstH |-> ctx.height,
                     dstFormat |-> "RGB0"]
               /\ avOutFrame_' =
                    [null |-> FALSE, buffer |-> (outRet = 0),
                     width |-> ctx.width, height |-> ctx.height,
                     format |-> ctx.sw_pix_fmt, pts |-> AV_NOPTS_VALUE]
               /\ mutex' = mutex
               /\ message' = message
               /\ pc' = [pc EXCEPT ![t] = "convert"]
  /\ UNCHANGED <<ctxOk, frameCount_, frameIdx, localVars, encVars,
                 published, calls, crashed>>

\* the block entered whatever context_->height is
ConfigureUnguarded(t) == ConfigureBlock(t)

\* line 113: the block is entered while context_->height is 0
Configure(t) ==
  /\ context_.height = 0
  /\ ConfigureBlock(t)

\* line 113 with context_->height already non-zero: the block is skipped
SkipConfigure(t) ==
  /\ ~crashed
  /\ pc[t] = "guard"
  /\ ctxOk
  /\ context_.height # 0
  /\ pc' = [pc EXCEPT ![t] = "convert"]
  /\ UNCHANGED <<ctxOk, sessionVars, frameCount_, frameIdx, mutex, message,
                 localVars, encVars, published, calls, crashed>>


(***************************************************************************)
(* publish: conversion and submit (lines 212-269).                         *)
(***************************************************************************)
\* av_image_copy and sws_scale read and write through avInFrame_,
\* avOutFrame_ and swsCtx_: all three must point at allocated storage
WorkingSetReady ==
  /\ ~avInFrame_.null /\ avInFrame_.buffer
  /\ ~avOutFrame_.null /\ avOutFrame_.buffer
  /\ ~swsCtx_.null

\* lines 213-217: the pixel format and the geometry av_image_copy is called
\* with
AvImageCopyArgs(t) ==
  [pix_fmt |-> "YUV420P",
   width |-> message[t].width, height |-> message[t].height]

\* lines 220-225: the slice sws_scale is called with
SwsScaleArgs(t) == [srcSliceY |-> 0, srcSliceH |-> message[t].height]

\* What lines 212-225 can do.  Reading through a null working frame is a
\* memory fault.  With the frames allocated but a frame buffer missing, or
\* with more rows or columns than the frames and the scaling context were
\* made for, the calls work outside allocated storage: the process takes a
\* memory fault, or the calls come back and publish goes on.
ConvertOutcomes(t) ==
  IF avInFrame_.null \/ avOutFrame_.null \/ swsCtx_.null
  THEN {"fault"}
  ELSE IF \/ ~avInFrame_.buffer \/ ~avOutFrame_.buffer
          \/ AvImageCopyArgs(t).width > avInFrame_.width
          \/ AvImageCopyArgs(t).height > avInFrame_.height
          \/ SwsScaleArgs(t).srcSliceY + SwsScaleArgs(t).srcSliceH > swsCtx_.srcH
  THEN {"fault", "done"}
  ELSE {"done"}

\* the frame tagged with frameCount_ and the counter left as it is
ConvertNoIncrement(t) ==
  /\ ~crashed
  /\ pc[t] = "convert"
  /\ \E o \in ConvertOutcomes(t) :
       IF o = "done"
       THEN /\ avOutFrame_' = [avOutFrame_ EXCEPT !.pts = frameCount_]
            /\ frameCount_' = frameCount_
            /\ avPacket' = [avPacket EXCEPT ![t] = NullPacket]
            /\ pc' = [pc EXCEPT ![t] = "send_first"]
            /\ crashed' = crashed
       ELSE /\ crashed' = TRUE
            /\ UNCHANGED <<avOutFrame_, frameCount_, avPacket, pc>>
  /\ UNCHANGED <<ctxOk, context_, codecOpen, avInFrame_, swsCtx_,
                 inputLineSizes_, configRuns, frameIdx, mutex, message, ret,
                 recvSeq, copyVars, encVars, published, calls>>

\* lines 212-239: copy, scale, tag with frameCount_++, allocate the packet
Convert(t) ==
  /\ ~crashed
  /\ pc[t] = "convert"
  /\ \E o \in ConvertOutcomes(t) :
       IF o = "done"
       THEN /\ avOutFrame_' = [avOutFrame_ EXCEPT !.pts = frameCount_]
            /\ frameCount_' = frameCount_ + 1
            /\ avPacket' = [avPacket EXCEPT ![t] = NullPacket]
            /\ pc' = [pc EXCEPT ![t] = "send_first"]
            /\ crashed' = crashed
       ELSE /\ crashed' = TRUE
            /\ UNCHANGED <<avOutFrame_, frameCount_, avPacket, pc>>
  /\ UNCHANGED <<ctxOk, context_, codecOpen, avInFrame_, swsCtx_,
                 inputLineSizes_, configRuns, frameIdx, mutex, message, ret,
                 recvSeq, copyVars, encVars, published, calls>>

\* line 241: the first avcodec_send_frame; its result is overwritten with
\* -1 at line 245
SendFirst(t) ==
  /\ ~crashed
  /\ pc[t] = "send_first"
  /\ \E r \in SendResults :
       encAccepted' = IF r = 0 THEN Append(encAccepted, avOutFrame_.pts)
                      ELSE encAccepted
  /\ ret' = [ret EXCEPT ![t] = -1]
  /\ pc' = [pc EXCEPT ![t] = "send_loop"]
  /\ UNCHANGED <<ctxOk, sessionVars, frameCount_, frameIdx, mutex, message,
                 avPacket, recvSeq, copyVars, encEmitted, published, calls,
                 crashed>>

\* the loop left on the first answer, accepted or not: an error answer
\* ends the submit and, ret being negative, the drain loop is skipped
SendLoopOnce(t) ==
  /\ ~crashed
  /\ pc[t] = "send_loop"
  /\ \E r \in SendResults :
       /\ ret' = [ret EXCEPT ![t] = r]
       /\ IF r = 0
          THEN /\ encAccepted' = Append(encAccepted, avOutFrame_.pts)
               /\ frameIdx' = (frameIdx % context_.framerate.num) + 1
               /\ pc' = [pc EXCEPT ![t] = "drain"]
          ELSE /\ pc' = [pc EXCEPT ![t] = "unref"]
               /\ UNCHANGED <<encAccepted, frameIdx>>
  /\ UNCHANGED <<ctxOk, sessionVars, frameCount_, mutex, message, avPacket,
                 recvSeq, copyVars, encEmitted, published, calls, crashed>>

\* lines 246-269: one iteration of while (ret != 0)
SendLoop(t) ==
  /\ ~crashed
  /\ pc[t] = "send_loop"
  /\ \E r \in SendResults :
       /\ ret' = [ret EXCEPT ![t] = r]
       /\ IF r = 0
          THEN /\ encAccepted' = Append(encAccepted, avOutFrame_.pts)
               /\ frameIdx' = (frameIdx % context_.framerate.num) + 1
               /\ pc' = [pc EXCEPT ![t] = "drain"]
          ELSE UNCHANGED <<encAccepted, frameIdx, pc>>
  /\ UNCHANGED <<ctxOk, sessionVars, frameCount_, mutex, message, avPacket,
                 recvSeq, copyVars, encEmitted, published, calls, crashed>>

(***************************************************************************)
(* publish: drain loop and envelope (lines 273-391).                       *)
(***************************************************************************)
\* av_rescale_q(a, bq, cq): a * bq / cq rounded to nearest, away from zero
AvRescaleQ(a, bq, cq) ==
  LET b == bq.num * cq.den
      c == cq.num * bq.den
  IN IF a < 0 THEN -(((-a) * b + c \div 2) \div c)
     ELSE (a * b + c \div 2) \div c

\* lines 290-304
Rescaled(pkt) ==
  [pkt EXCEPT
     !.pts = IF pkt.pts # AV_NOPTS_VALUE
             THEN AvRescaleQ(pkt.pts, context_.time_base, context_.time_base)
             ELSE pkt.pts,
     !.dts = IF pkt.dts # AV_NOPTS_VALUE
             THEN AvRescaleQ(pkt.dts, context_.time_base, context_.time_base)
             ELSE pkt.dts]

RECURSIVE SideDataSizeLoop(_, _)
\* lines 313-316: the sum the loop adds for entries k .. side_data_elems
SideDataSizeLoop(pkt, k) ==
  IF k > pkt.side_data_elems THEN 0
  ELSE pkt.side_data[k].size + 4 + 4 + SideDataSizeLoop(pkt, k + 1)

\* size_data without the side-data loop
SizeDataNoLoop(pkt) ==
  4 + pkt.buf.size + 8 + 8 + pkt.size + 4 + 4 + 4 + pkt.side_data_elems + 8 + 8

\* lines 311-316: size_data
SizeData(pkt) ==
  4 + pkt.buf.size + 8 + 8 + pkt.size + 4 + 4 + 4 + pkt.side_data_elems + 8 + 8
    + SideDataSizeLoop(pkt, 1)

\* the pts of the accepted frame whose packet the encoder hands out next
NextPts ==
  IF encEmitted < Len(encAccepted) THEN encAccepted[encEmitted + 1] ELSE 0

\* the packets the encoder can hand out now: one per accepted frame, in the
\* order the frames were accepted, each one of shapes
PacketsAvailable(shapes) ==
  IF encEmitted < Len(encAccepted) /\ encEmitted < MaxPackets
  THEN shapes
  ELSE {}

\* lines 273-319: the loop test, a successful avcodec_receive_packet, the
\* timestamp rescale, size_data and the resize of compressed.data
ReceivePacketFrom(t, shapes) ==
  /\ ~crashed
  /\ pc[t] = "drain"
  /\ ret[t] >= 0
  /\ \E pkt \in PacketsAvailable(shapes) :
       /\ avPacket' = [avPacket EXCEPT ![t] = Rescaled(pkt)]
       /\ compressed' = [compressed EXCEPT ![t] = Zeros(SizeData(Rescaled(pkt)))]
  /\ ret' = [ret EXCEPT ![t] = 0]
  /\ encEmitted' = encEmitted + 1
  /\ recvSeq' = [recvSeq EXCEPT ![t] = encEmitted + 1]
  /\ index_data_compressed' = [index_data_compressed EXCEPT ![t] = 0]
  /\ pc' = [pc EXCEPT ![t] = "copy_buf_size"]
  /\ UNCHANGED <<ctxOk, sessionVars, frameCount_, frameIdx, mutex, message, i,
                 encAccepted, published, calls, crashed>>

ReceivePacket(t) == ReceivePacketFrom(t, PipelinePackets(NextPts))

ReceiveAnyPacket(t) == ReceivePacketFrom(t, EncoderPackets(NextPts))

\* lines 273-285 and 389: avcodec_receive_packet answers with an error (no
\* packet available, or a failure); the packet is blank and the loop ends
ReceiveNone(t) ==
  /\ ~crashed
  /\ pc[t] = "drain"
  /\ ret[t] >= 0
  /\ \E r \in {AVERROR_EAGAIN, AVERROR_ENOMEM} : ret' = [ret EXCEPT ![t] = r]
  /\ avPacket' = [avPacket EXCEPT ![t] = NullPacket]
  /\ pc' = [pc EXCEPT ![t] = "unref"]
  /\ UNCHANGED <<ctxOk, sessionVars, frameCount_, frameIdx, mutex, message,
                 recvSeq, copyVars, encVars, published, calls, crashed>>


\* What a memcpy into compressed.data can do.  A copy that stays inside the
\* vector copies.  A copy that runs past its end is undefined behaviour:
\* the process takes a memory fault, or the excess bytes land in memory
\* that is not the vector's and the call goes on.
CopyOutcomes(dst, idx, src) ==
  IF PastEnd(dst, idx, src) THEN {"fault", "stray"} ELSE {"copied"}

\* memcpy(&compressed.data[index_data_compressed], src, n) followed by
\* index_data_compressed += n, then on to the statement at next
CopyField(t, src, next) ==
  /\ ~crashed
  /\ \E o \in CopyOutcomes(compressed[t], index_data_compressed[t], src) :
       IF o = "fault"
       THEN /\ crashed' = TRUE
            /\ UNCHANGED <<compressed, index_data_compressed, pc>>
       ELSE /\ crashed' = crashed
            /\ compressed' =
                 [compressed EXCEPT
                    ![t] = Memcpy(@, index_data_compressed[t], src)]
            /\ index_data_compressed' =
                 [index_data_compressed EXCEPT ![t] = @ + Len(src)]
            /\ pc' = [pc EXCEPT ![t] = next]
  /\ UNCHANGED <<ctxOk, sessionVars, frameCount_, frameIdx, mutex, message,
                 ret, avPacket, recvSeq, encVars, published, calls>>

\* lines 321-323
CopyBufSize(t) ==
  /\ pc[t] = "copy_buf_size"
  /\ CopyField(t, LE(avPacket[t].buf.size, 4), "copy_buf_data")
  /\ UNCHANGED i

\* lines 325-327
CopyBufData(t) ==
  /\ pc[t] = "copy_buf_data"
  /\ CopyField(t, SubSeq(avPacket[t].buf.data, 1, avPacket[t].buf.size),
               "copy_size")
  /\ UNCHANGED i

\* lines 329-331
CopySize(t) ==
  /\ pc[t] = "copy_size"
  /\ CopyField(t, LE(avPacket[t].size, 4), "copy_data")
  /\ UNCHANGED i

\* the source of line 333: size bytes starting at &avPacket->data, the
\* address of the pointer member
DataSource(pkt) == SubSeq(PacketImageFromData(pkt), 1, pkt.size)

\* lines 333-334
CopyData(t) ==
  /\ pc[t] = "copy_data"
  /\ CopyField(t, DataSource(avPacket[t]), "copy_pts")
  /\ UNCHANGED i

\* lines 336-338
CopyPts(t) ==
  /\ pc[t] = "copy_pts"
  /\ CopyField(t, LE(avPacket[t].pts, 8), "copy_dts")
  /\ UNCHANGED i

\* lines 340-342
CopyDts(t) ==
  /\ pc[t] = "copy_dts"
  /\ CopyField(t, LE(avPacket[t].dts, 8), "copy_stream_index")
  /\ UNCHANGED i

\* lines 344-345
CopyStreamIndex(t) ==
  /\ pc[t] = "copy_stream_index"
  /\ CopyField(t, LE(avPacket[t].stream_index, 4), "copy_flags")
  /\ UNCHANGED i

\* lines 347-348
CopyFlags(t) ==
  /\ pc[t] = "copy_flags"
  /\ CopyField(t, LE(avPacket[t].flags, 4), "copy_side_data_elems")
  /\ UNCHANGED i

\* lines 358-361: the count, then the loop starts with i = 0
CopySideDataElems(t) ==
  /\ pc[t] = "copy_side_data_elems"
  /\ CopyField(t, LE(avPacket[t].side_data_elems, 4),
               IF 0 < avPacket[t].side_data_elems THEN "copy_side_size"
               ELSE "copy_duration")
  /\ i' = [i EXCEPT ![t] = 0]

\* lines 363-364: side_data[i].size (entries are numbered from 1 here)
CopySideSize(t) ==
  /\ pc[t] = "copy_side_size"
  /\ CopyField(t, LE(avPacket[t].side_data[i[t] + 1].size, 4), "copy_side_type")
  /\ UNCHANGED i

\* lines 367-368: side_data[i].type
CopySideType(t) ==
  /\ pc[t] = "copy_side_type"
  /\ CopyField(t, LE(avPacket[t].side_data[i[t] + 1].type, 4), "copy_side_bytes")
  /\ UNCHANGED i

\* the source of line 371: size bytes starting at &side_data[i].data, the
\* address of the pointer member
SideDataSource(e) == SubSeq(SideImageFromData(e), 1, e.size)

\* lines 371-372 and the loop step of line 361
CopySideBytes(t) ==
  /\ pc[t] = "copy_side_bytes"
  /\ CopyField(t, SideDataSource(avPacket[t].side_data[i[t] + 1]),
               IF i[t] + 1 < avPacket[t].side_data_elems THEN "copy_side_size"
               ELSE "copy_duration")
  /\ i' = IF crashed' THEN i ELSE [i EXCEPT ![t] = @ + 1]

\* lines 376-377
CopyDuration(t) ==
  /\ pc[t] = "copy_duration"
  /\ CopyField(t, LE(avPacket[t].duration, 8), "copy_pos")
  /\ UNCHANGED i

\* lines 379-380
CopyPos(t) ==
  /\ pc[t] = "copy_pos"
  /\ CopyField(t, LE(avPacket[t].pos, 8), "publish_fn")
  /\ UNCHANGED i

\* lines 385-389: publish_fn(compressed), the end of the loop body (its
\* locals go out of scope), then back to the loop test.  The record keeps,
\* beside the message, the packet it was made from and the packet's
\* emission number.
PublishFn(t) ==
  /\ ~crashed
  /\ pc[t] = "publish_fn"
  /\ published' = Append(published,
                         [data   |-> compressed[t],
                          format |-> "h265",
                          packet |-> avPacket[t],
                          seq    |-> recvSeq[t],
                          caller |-> t])
  /\ compressed' = [compressed EXCEPT ![t] = <<>>]
  /\ index_data_compressed' = [index_data_compressed EXCEPT ![t] = 0]
  /\ i' = [i EXCEPT ![t] = 0]
  /\ pc' = [pc EXCEPT ![t] = "drain"]
  /\ UNCHANGED <<ctxOk, sessionVars, frameCount_, frameIdx, mutex, message,
                 ret, avPacket, recvSeq, encVars, calls, crashed>>

\* lines 390-391: av_packet_unref, the locals go out of scope and the
\* guard's destructor unlocks
Return(t) ==
  /\ ~crashed
  /\ pc[t] = "unref"
  /\ avPacket' = [avPacket EXCEPT ![t] = NullPacket]
  /\ ret' = [ret EXCEPT ![t] = 0]
  /\ recvSeq' = [recvSeq EXCEPT ![t] = 0]
  /\ message' = [message EXCEPT ![t] = NoMessage]
  /\ GuardDestructor(t)
  /\ pc' = [pc EXCEPT ![t] = "idle"]
  /\ UNCHANGED <<ctxOk, sessionVars, frameCount_, frameIdx, copyVars,
                 encVars, published, calls, crashed>>

\* the steps a caller takes once it has called publish
Running(t) ==
  \/ Lock(t)
  \/ NullContext(t)
  \/ Configure(t)
  \/ SkipConfigure(t)
  \/ Convert(t)
  \/ SendFirst(t)
  \/ SendLoop(t)
  \/ ReceivePacket(t)
  \/ ReceiveNone(t)
  \/ CopyBufSize(t)
  \/ CopyBufData(t)
  \/ CopySize(t)
  \/ CopyData(t)
  \/ CopyPts(t)
  \/ CopyDts(t)
  \/ CopyStreamIndex(t)
  \/ CopyFlags(t)
  \/ CopySideDataElems(t)
  \/ CopySideSize(t)
  \/ CopySideType(t)
  \/ CopySideBytes(t)
  \/ CopyDuration(t)
  \/ CopyPos(t)
  \/ PublishFn(t)
  \/ Return(t)

Next == \E t \in Threads : Call(t) \/ Running(t)

Spec == Init /\ [][Next]_vars

\* A caller that has called publish keeps running: a thread that can take
\* a step is not held back forever.  Nothing is assumed of what the encoder
\* answers.
SpecFair == Spec /\ \A t \in Threads : WF_vars(Running(t))

(***************************************************************************)
(* The serialization of the packets of one call, with every packet shape:  *)
(* the call has configured the session with a 2x2 or 2x4 image, both       *)
(* submits of its frame were accepted, and it stands at the loop test of   *)
(* line 273.                                                               *)
(***************************************************************************)
InitCodec ==
  \E m \in {x \in Messages : AvcodecOpen2(ConfiguredContext(x)) # {AVERROR_EINVAL}} :
    /\ ctxOk = TRUE
    /\ context_ = ConfiguredContext(m)
    /\ codecOpen = TRUE
    /\ avInFrame_ = [null |-> FALSE, buffer |-> TRUE, width |-> m.width,
                     height |-> m.height, format |-> "RGB24",
                     pts |-> AV_NOPTS_VALUE]
    /\ avOutFrame_ = [null |-> FALSE, buffer |-> TRUE, width |-> m.width,
                      height |-> m.height, format |-> "YUV420P", pts |-> 0]
    /\ swsCtx_ = [null |-> FALSE, srcW |-> m.width, srcH |-> m.height,
                  srcFormat |-> "RGB24", dstW |-> m.width, dstH |-> m.height,
                  dstFormat |-> "RGB0"]
    /\ inputLineSizes_ = 3 * m.width
    /\ frameCount_ = 1
    /\ frameIdx = 1
    /\ mutex = 1
    /\ pc = [t \in Threads |-> IF t = 1 THEN "drain" ELSE "idle"]
    /\ message = [t \in Threads |-> IF t = 1 THEN m ELSE NoMessage]
    /\ ret = [t \in Threads |-> 0]
    /\ avPacket = [t \in Threads |-> NullPacket]
    /\ compressed = [t \in Threads |-> <<>>]
    /\ index_data_compressed = [t \in Threads |-> 0]
    /\ i = [t \in Threads |-> 0]
    /\ encAccepted = <<0, 0>>
    /\ encEmitted = 0
    /\ recvSeq = [t \in Threads |-> 0]
    /\ published = <<>>
    /\ configRuns = 1
    /\ calls = 1
    /\ crashed = FALSE

NextCodec ==
  \E t \in Threads :
    \/ ReceiveAnyPacket(t)
    \/ ReceiveNone(t)
    \/ CopyBufSize(t)
    \/ CopyBufData(t)
    \/ CopySize(t)
    \/ CopyData(t)
    \/ CopyPts(t)
    \/ CopyDts(t)
    \/ CopyStreamIndex(t)
    \/ CopyFlags(t)
    \/ CopySideDataElems(t)
    \/ CopySideSize(t)
    \/ CopySideType(t)
    \/ CopySideBytes(t)
    \/ CopyDuration(t)
    \/ CopyPos(t)
    \/ PublishFn(t)
    \/ Return(t)

SpecCodec == InitCodec /\ [][NextCodec]_vars

TypeOK ==
  /\ mutex \in 0 .. NumThreads
  /\ calls \in 0 .. MaxCalls
  /\ encEmitted \in 0 .. MaxPackets
  /\ \A t \in Threads : index_data_compressed[t] >= 0

(***************************************************************************)
(* The receiver of section 4.4: fields parsed strictly in table order with *)
(* the table's widths; an envelope too short for a field is malformed.     *)
(***************************************************************************)
RECURSIVE ULE(_)
\* unsigned value of little-endian bytes
ULE(b) == IF b = <<>> THEN 0 ELSE b[1] + 256 * ULE(Tail(b))

\* two's complement value of little-endian bytes
SLE(b) ==
  IF b[Len(b)] >= 128
  THEN -ULE([k \in 1 .. Len(b) |-> 255 - b[k]]) - 1
  ELSE ULE(b)

\* the w bytes of env after its first at bytes
Take(env, at, w) == SubSeq(env, at + 1, at + w)

RECURSIVE ParseSideData(_, _, _)
\* count entries {size:int32, type:int32, bytes:size} starting after at
ParseSideData(env, at, count) ==
  IF count <= 0 THEN [ok |-> count = 0, entries |-> <<>>, at |-> at]
  ELSE IF at + 8 > Len(env) THEN [ok |-> FALSE, entries |-> <<>>, at |-> at]
  ELSE LET size == SLE(Take(env, at, 4))
           type == SLE(Take(env, at + 4, 4))
       IN IF size < 0 \/ at + 8 + size > Len(env)
          THEN [ok |-> FALSE, entries |-> <<>>, at |-> at]
          ELSE LET rest == ParseSideData(env, at + 8 + size, count - 1)
               IN [ok      |-> rest.ok,
                   entries |-> <<[size |-> size, type |-> type,
                                  bytes |-> Take(env, at + 8, size)]>>
                               \o rest.entries,
                   at      |-> rest.at]

Malformed == [ok |-> FALSE]

\* the fields of an envelope, or Malformed
Deserialize(env) ==
  IF Len(env) < 4 THEN Malformed
  ELSE LET bufferCapacity == SLE(Take(env, 0, 4))
           a1 == 4 + bufferCapacity
       IN IF bufferCapacity < 0 \/ a1 + 4 > Len(env) THEN Malformed
          ELSE LET payloadSize == SLE(Take(env, a1, 4))
                   a2 == a1 + 4 + payloadSize
               IN IF payloadSize < 0 \/ a2 + 8 + 8 + 4 + 4 + 4 > Len(env)
                  THEN Malformed
                  ELSE LET count == SLE(Take(env, a2 + 24, 4))
                           side == ParseSideData(env, a2 + 28, count)
                       IN IF ~side.ok \/ side.at + 8 + 8 > Len(env)
                          THEN Malformed
                          ELSE [ok             |-> TRUE,
                                bufferCapacity |-> bufferCapacity,
                                bufferBytes    |-> Take(env, 4, bufferCapacity),
                                payloadSize    |-> payloadSize,
                                payloadBytes   |-> Take(env, a1 + 4, payloadSize),
                                pts            |-> SLE(Take(env, a2, 8)),
                                dts            |-> SLE(Take(env, a2 + 8, 8)),
                                streamIndex    |-> SLE(Take(env, a2 + 16, 4)),
                                flags          |-> SLE(Take(env, a2 + 20, 4)),
                                sideDataCount  |-> count,
                                sideData       |-> side.entries,
                                duration       |-> SLE(Take(env, side.at, 8)),
                                pos            |-> SLE(Take(env, side.at + 8, 8))]

(***************************************************************************)
(* Claims.                                                                 *)
(***************************************************************************)
Published == {published[k] : k \in 1 .. Len(published)}

\* the bytes the copy a caller stands before will write
FieldSource(t) ==
  LET pkt == avPacket[t]
  IN CASE pc[t] = "copy_buf_size" -> LE(pkt.buf.size, 4)
       [] pc[t] = "copy_buf_data" -> SubSeq(pkt.buf.data, 1, pkt.buf.size)
       [] pc[t] = "copy_size" -> LE(pkt.size, 4)
       [] pc[t] = "copy_data" -> DataSource(pkt)
       [] pc[t] \in {"copy_pts", "copy_dts", "copy_duration", "copy_pos"} ->
            Zeros(8)
       [] pc[t] \in {"copy_stream_index", "copy_flags", "copy_side_data_elems",
                     "copy_side_size", "copy_side_type"} -> Zeros(4)
       [] pc[t] = "copy_side_bytes" -> SideDataSource(pkt.side_data[i[t] + 1])
       [] OTHER -> <<>>

\* the sum over side-data entries of (4 + 4 + size)
RECURSIVE SideTotal(_)
SideTotal(sd) ==
  IF sd = <<>> THEN 0 ELSE 4 + 4 + Head(sd).size + SideTotal(Tail(sd))

\* C1: while a packet is serialized no field copy writes at or past the end
\* of the envelope buffer, and after pos is written the cursor equals the
\* buffer length, for every side-data count.
C1_CopiesStayInBuffer ==
  \A t \in Threads :
    /\ ~PastEnd(compressed[t], index_data_compressed[t], FieldSource(t))
    /\ pc[t] = "publish_fn" =>
         index_data_compressed[t] = Len(compressed[t])

C3_ScalarsRecovered ==
  \A e \in Published :
    LET d == Deserialize(e.data)
    IN /\ d.ok
       /\ d.bufferCapacity = e.packet.buf.size
       /\ d.payloadSize = e.packet.size
       /\ d.pts = e.packet.pts
       /\ d.dts = e.packet.dts
       /\ d.streamIndex = e.packet.stream_index
       /\ d.flags = e.packet.flags
       /\ d.sideDataCount = e.packet.side_data_elems
       /\ d.duration = e.packet.duration
       /\ d.pos = e.packet.pos

\* the payloadBytes field of an envelope
PayloadField(env) ==
  LET bufferCapacity == SLE(Take(env, 0, 4))
      payloadSize == SLE(Take(env, 4 + bufferCapacity, 4))
  IN Take(env, 4 + bufferCapacity + 4, payloadSize)

\* C4: the payloadBytes field of the envelope holds the packet's payload
\* bytes, for every packet.
C4_PayloadBytesAreThePayload ==
  \A e \in Published : PayloadField(e.data) = PayloadBytes(e.packet)

\* the side-data entries of an envelope
SideDataField(env) ==
  LET bufferCapacity == SLE(Take(env, 0, 4))
      payloadSize == SLE(Take(env, 4 + bufferCapacity, 4))
      a2 == 4 + bufferCapacity + 4 + payloadSize
  IN ParseSideData(env, a2 + 28, SLE(Take(env, a2 + 24, 4)))

\* C5: with no side data the count is 0 and duration follows it at once;
\* with n entries the sizes, type tags and bytes come back in order.
C5_SideDataRoundTrip ==
  \A e \in Published :
    LET side == SideDataField(e.data)
    IN /\ side.ok
       /\ Len(side.entries) = e.packet.side_data_elems
       /\ e.packet.side_data_elems = 0 =>
            Take(e.data, side.at, 8) = LE(e.packet.duration, 8)
       /\ \A k \in 1 .. e.packet.side_data_elems :
            /\ side.entries[k].size = e.packet.side_data[k].size
            /\ side.entries[k].type = e.packet.side_data[k].type
            /\ side.entries[k].bytes = e.packet.side_data[k].bytes

\* the field values of a packet, without the addresses its pointers hold
FieldValues(pkt) ==
  [buf |-> pkt.buf, size |-> pkt.size, payload |-> PayloadBytes(pkt),
   pts |-> pkt.pts, dts |-> pkt.dts, stream_index |-> pkt.stream_index,
   flags |-> pkt.flags, duration |-> pkt.duration, pos |-> pkt.pos,
   side_data |-> [k \in 1 .. Len(pkt.side_data) |->
                    [size |-> pkt.side_data[k].size,
                     type |-> pkt.side_data[k].type,
                     bytes |-> pkt.side_data[k].bytes]]]

\* C6: packets with equal field values serialize to identical envelopes,
\* wherever the packet and its buffers lie in memory.
C6_EqualFieldsEqualEnvelopes ==
  \A e1 \in Published, e2 \in Published :
    FieldValues(e1.packet) = FieldValues(e2.packet) => e1.data = e2.data

Inside(t) == pc[t] \notin {"idle", "lock"}

\* C7: envelopes reach publish_fn in the encoder's emission order, and at
\* every submit each packet retrieved so far has already been published.
C7_EmissionOrderKept ==
  /\ \A j \in 1 .. Len(published), k \in 1 .. Len(published) :
       j < k => published[j].seq < published[k].seq
  /\ \A t \in Threads :
       pc[t] \in {"send_first", "send_loop"} => Len(published) = encEmitted

C7_Witness ==
  /\ Len(published) = 2
  /\ published[1].caller # published[2].caller
  /\ \E t \in Threads : pc[t] = "drain"

\* C8: a caller is inside publish's locked section exactly while it holds
\* the mutex, so at most one call is inside at a time and every return
\* releases the lock.
C8_OneCallInside ==
  /\ \A t \in Threads : Inside(t) <=> mutex = t
  /\ Cardinality({t \in Threads : Inside(t)}) <= 1

C8_Witness ==
  \E t \in Threads, u \in Threads :
    /\ pc[t] = "lock"
    /\ pc[u] = "copy_pos"
    /\ mutex = u

\* C9: once the encoder is open no step enters the configuration block,
\* re-opens the encoder, re-allocates a working frame or changes a
\* configuration field.
C9_ConfiguredOnce ==
  [][codecOpen =>
       /\ configRuns' = configRuns
       /\ codecOpen'
       /\ context_' = context_
       /\ swsCtx_' = swsCtx_
       /\ inputLineSizes_' = inputLineSizes_
       /\ avInFrame_' = avInFrame_
       /\ [avOutFrame_' EXCEPT !.pts = 0] = [avOutFrame_ EXCEPT !.pts = 0]]_vars

C9_Witness ==
  /\ codecOpen
  /\ configRuns = 1
  /\ frameCount_ = 1
  /\ \E t \in Threads : pc[t] = "convert"

\* C10: a publish call that returns from the configuration block leaves
\* the not-yet-configured guard (context_->height = 0) true.
C10_FailedConfigurationStaysUnconfigured ==
  [][\A t \in Threads :
       (pc[t] = "guard" /\ pc'[t] = "idle") => context_'.height = 0]_vars

Odd(n) == n % 2 = 1

\* C11: a first configuration with an image of odd width or height ends the
\* call there: the call returns, the encoder is not open, the session is
\* still not configured (context_->height = 0) and nothing was published.
C11_OddFirstFrameRejected ==
  [][\A t \in Threads :
       ( /\ pc[t] = "guard" /\ pc'[t] # "guard"
         /\ configRuns = 0
         /\ (Odd(message[t].width) \/ Odd(message[t].height)) )
       => /\ pc'[t] = "idle"
          /\ ~codecOpen'
          /\ context_'.height = 0
          /\ published' = published]_vars

\* C12: a call whose configuration meets a fatal condition (the encoder
\* does not open, or the buffer of a working frame is not allocated)
\* returns from the configuration block: it does not go on to convert, tag
\* or submit a frame, and publishes nothing.
C12_FatalConditionsAbort ==
  [][\A t \in Threads :
       ( /\ pc[t] = "guard" /\ pc'[t] # "guard"
         /\ configRuns' = configRuns + 1
         /\ (~codecOpen' \/ ~avInFrame_'.buffer \/ ~avOutFrame_'.buffer) )
       => /\ pc'[t] = "idle"
          /\ frameCount_' = frameCount_
          /\ encAccepted' = encAccepted
          /\ published' = published]_vars

\* C13: while a call is in the submit loop every step leaves the frame to
\* encode and the frame index as they are, publishes nothing and keeps the
\* lock; the call stays in the loop on any answer but "accepted", and
\* moves on to the drain loop only with the step in which the encoder
\* accepts this frame's pts.
C13_RetrySameFrameUntilAccepted ==
  [][\A t \in Threads :
       pc[t] = "send_loop" =>
         /\ avOutFrame_' = avOutFrame_
         /\ frameCount_' = frameCount_
         /\ published' = published
         /\ mutex' = t
         /\ \/ pc'[t] = "send_loop" /\ encAccepted' = encAccepted
            \/ /\ pc'[t] = "drain"
               /\ ret'[t] = 0
               /\ encAccepted' = Append(encAccepted, avOutFrame_.pts)]_vars

\* the encoder has answered "not ready" to the first submit and to a retry
\* and has not accepted the frame yet
C13_Witness ==
  \E t \in Threads :
    /\ pc[t] = "send_loop"
    /\ ret[t] = AVERROR_EAGAIN
    /\ encAccepted = <<>>
    /\ avOutFrame_.pts = 0

\* the call holds a received packet and is writing or handing over its
\* envelope
Serializing(t) ==
  pc[t] \in {"copy_buf_size", "copy_buf_data", "copy_size", "copy_data",
             "copy_pts", "copy_dts", "copy_stream_index", "copy_flags",
             "copy_side_data_elems", "copy_side_size", "copy_side_type",
             "copy_side_bytes", "copy_duration", "copy_pos", "publish_fn"}

\* C14: publish_fn is called exactly once for each packet the encoder
\* returned and for nothing else: the envelopes published are those of the
\* packets 1, 2, ... in turn, and every packet handed out is either
\* published or in the hands of a running call that is about to publish it.
C14_OneEnvelopePerPacket ==
  /\ \A j \in 1 .. Len(published) : published[j].seq = j
  /\ Len(published)
       + Cardinality({t \in Threads : Serializing(t) /\ ~crashed})
     = encEmitted

\* C15: the encoder accepts each frame once: no two accepted submits carry
\* the same pts.
C15_AcceptedOncePerPts ==
  \A j \in 1 .. Len(encAccepted), k \in 1 .. Len(encAccepted) :
    j # k => encAccepted[j] # encAccepted[k]

\* C16: a call that stands at the conversion (line 212) or at the submit
\* works on an open encoder and on allocated working frames and scaling
\* context.
C16_SessionReadyAtConvert ==
  \A t \in Threads :
    pc[t] \in {"convert", "send_first", "send_loop"} =>
      codecOpen /\ WorkingSetReady

\* C17: at the conversion of a configured session the copy into the input
\* working frame uses the pixel format that frame was allocated with, the
\* scaling context reads that format, and it writes the format of the output
\* working frame, which is the encoder's pix_fmt.
C17_FormatsConsistent ==
  \A t \in Threads :
    (pc[t] = "convert" /\ codecOpen /\ WorkingSetReady) =>
      /\ AvImageCopyArgs(t).pix_fmt = avInFrame_.format
      /\ swsCtx_.srcFormat = avInFrame_.format
      /\ swsCtx_.dstFormat = avOutFrame_.format
      /\ avOutFrame_.format = context_.pix_fmt

\* C18: a call that holds the lock eventually releases it, unless a memory
\* fault kills the process or the encoder answers a submit of the call with
\* "not ready" (the answer that is retried by design).
C18_EveryCallReturns ==
  \A t \in Threads :
    (mutex = t) ~> (mutex # t \/ crashed \/ ret[t] = AVERROR_EAGAIN)

\* C19: at the conversion of a configured session the width and height
\* given to the copy and to the scale are those the input working frame,
\* the line sizes and the scaling context were created with.
C19_GeometryFixed ==
  \A t \in Threads :
    (pc[t] = "convert" /\ codecOpen /\ WorkingSetReady) =>
      /\ AvImageCopyArgs(t).width = avInFrame_.width
      /\ AvImageCopyArgs(t).height = avInFrame_.height
      /\ 3 * AvImageCopyArgs(t).width = inputLineSizes_
      /\ AvImageCopyArgs(t).width = swsCtx_.srcW
      /\ SwsScaleArgs(t).srcSliceY + SwsScaleArgs(t).srcSliceH = swsCtx_.srcH

\* C20: frameCount_ changes only in the step that tags a frame for the
\* encoder, there by exactly one, and the frame is tagged with the value
\* frameCount_ had before the step; a call that returns from the
\* configuration block leaves it unchanged.
C20_FrameCountGapFree ==
  [][ /\ frameCount_' # frameCount_ <=>
           \E t \in Threads : pc[t] = "convert" /\ pc'[t] = "send_first"
      /\ \A t \in Threads :
           (pc[t] = "convert" /\ pc'[t] = "send_first") =>
             /\ frameCount_' = frameCount_ + 1
             /\ avOutFrame_'.pts = frameCount_
      /\ \A t \in Threads :
           (pc[t] = "guard" /\ pc'[t] = "idle") => frameCount_' = frameCount_
    ]_vars

\* the second frame to reach the submit carries pts 1
C20_Witness ==
  \E t \in Threads :
    /\ pc[t] = "send_first"
    /\ frameCount_ = 2
    /\ avOutFrame_.pts = 1

====
